---- MODULE Spec2Model ----
(***************************************************************************)
(* Model of the GDB remote-protocol handlers of ckb-vm-debug-utils:        *)
(*   GdbHandler (src/src/gdbserver.rs, over an AsmMachine) and             *)
(*   VMHandler  (src/src/main.rs, over a DefaultMachine).                  *)
(* The virtual machine itself (ckb_vm) is an external crate; it is         *)
(* abstracted to a small byte-coded instruction set that exercises every   *)
(* effect the handlers observe: pc movement, register writes, exit         *)
(* (running flag and exit code) and a failing step.                        *)
(***************************************************************************)
EXTENDS Integers, Sequences, FiniteSets, TLC

\* ------------------------------------------------------------------ bounds
\* Number of guest memory cells of the model (the program lives in them).
MemSize == 4
\* Longest breakpoint list the model lets a session build.
MaxBps == 2
\* Number of bytes of the serialized file-status record in the model
\* (size_of::<AbiStat>() in the source).
StatLen == 2

\* ------------------------------------------------------- program constants
RISCV_GENERAL_REGISTER_NUMBER == 32
A0 == 10
A1 == 11
A7 == 17
\* The system-call number that Stdio::ecall serves (fstat).
SyscallFstat == 80

\* ------------------------------------------------------------ u64 values
\* A u64 is kept as four 16-bit limbs, least significant first, so that the
\* full 64-bit width is kept (2^64 - 1 is <<65535, 65535, 65535, 65535>>).
Limb == 256 * 256

\* The u64 of a small natural number n < 2^31.
W(n) == <<n % Limb, (n \div Limb) % Limb, 0, 0>>

\* v + 1 on u64, wrapping at 2^64 (the VM's pc arithmetic).
Add1(v) ==
  IF v[1] + 1 < Limb THEN <<v[1] + 1, v[2], v[3], v[4]>>
  ELSE IF v[2] + 1 < Limb THEN <<0, v[2] + 1, v[3], v[4]>>
  ELSE IF v[3] + 1 < Limb THEN <<0, 0, v[3] + 1, v[4]>>
  ELSE IF v[4] + 1 < Limb THEN <<0, 0, 0, v[4] + 1>>
  ELSE <<0, 0, 0, 0>>

\* a < b on u64.
Lt(a, b) ==
  \/ a[4] < b[4]
  \/ a[4] = b[4] /\ a[3] < b[3]
  \/ a[4] = b[4] /\ a[3] = b[3] /\ a[2] < b[2]
  \/ a[4] = b[4] /\ a[3] = b[3] /\ a[2] = b[2] /\ a[1] < b[1]

Ge(a, b) == ~Lt(a, b)

\* The guest addresses that hold memory, and whether a u64 is one of them.
Addr == 0 .. (MemSize - 1)
IsAddr(v) == v[1] \in Addr /\ v[2] = 0 /\ v[3] = 0 /\ v[4] = 0
Regs == 0 .. (RISCV_GENERAL_REGISTER_NUMBER - 1)

\* The two handler implementations of the repository.
Impls == {"GdbHandler", "VMHandler"}

VARIABLES
  impl,         \* which handler serves the session
  registers,    \* machine.registers()
  pc,           \* machine.pc()
  next_pc,      \* the pending pc of the update_pc / commit_pc protocol
  memory,       \* machine.memory_mut()
  running,      \* machine.running()
  exit_code,    \* machine.exit_code(), an i8
  breakpoints,  \* self.breakpoints, a Vec<Breakpoint>
  status,       \* "serving", or how the serving thread ended: "panicked", "hung"
  last          \* the last handler call: request, state before it, reply

vars == <<impl, registers, pc, next_pc, memory, running, exit_code,
          breakpoints, status, last>>

\* The machine as one value (what machine.borrow() gives access to).
Machine == [registers |-> registers, pc |-> pc, next_pc |-> next_pc,
            memory |-> memory, running |-> running, exit_code |-> exit_code]

\* ------------------------------------------------------------ the VM step
\* Instruction decoding of the abstract instruction set, by the byte at pc.
decode(b) ==
  CASE b = 1 -> "NOP"
    [] b = 2 -> "J0"
    [] b = 3 -> "LI_A0"
    [] b = 4 -> "LI_A7"
    [] b = 5 -> "ECALL"
    [] OTHER -> "ILL"

\* Register::to_i8: the low eight bits, as a signed byte.
to_i8(v) ==
  LET low == v[1] % 256 IN IF low >= 128 THEN low - 256 ELSE low

\* CoreMachine::update_pc, commit_pc: the two-phase pc protocol of the AsmMachine.
update_pc(vm, target) == [vm EXCEPT !.next_pc = target]
commit_pc(vm) == [vm EXCEPT !.pc = vm.next_pc]

\* CoreMachine::set_pc of the DefaultMachine used by main.rs: it has one pc only
\* (the model keeps next_pc equal to it).
set_pc(vm, target) == [vm EXCEPT !.pc = target, !.next_pc = target]

\* update_pc followed by commit_pc, as the VM's execute does after an instruction.
commit(vm, target) == commit_pc(update_pc(vm, target))

\* machine.step(&decoder): decode the instruction at pc and execute it.
\* The result is Ok(()) with the new machine, or Err with the machine as it was.
\* step does not look at the running flag.
step(vm) ==
  IF ~IsAddr(vm.pc)
  THEN [ok |-> FALSE, vm |-> vm]
  ELSE
    LET op == decode(vm.memory[vm.pc[1]])
        next == Add1(vm.pc)
    IN CASE op = "NOP" -> [ok |-> TRUE, vm |-> commit(vm, next)]
         [] op = "J0" -> [ok |-> TRUE, vm |-> commit(vm, W(0))]
         [] op = "LI_A0" ->
              [ok |-> TRUE,
               vm |-> commit([vm EXCEPT !.registers[A0] = W(456)], next)]
         [] op = "LI_A7" ->
              [ok |-> TRUE,
               vm |-> commit([vm EXCEPT !.registers[A7] = W(93)], next)]
         [] op = "ECALL" ->
              IF vm.registers[A7] = W(93)
              THEN [ok |-> TRUE,
                    vm |-> commit([vm EXCEPT !.exit_code = to_i8(vm.registers[A0]),
                                             !.running = FALSE], next)]
              ELSE [ok |-> FALSE, vm |-> vm]
         [] OTHER -> [ok |-> FALSE, vm |-> vm]

\* ------------------------------------------------------------ replies
Signal(c) == [type |-> "Signal", pid |-> 0, code |-> c]
Exited(p, c) == [type |-> "Exited", pid |-> p, code |-> c]
Unit == [type |-> "Unit", pid |-> 0, code |-> 0]
ErrorCode(c) == [type |-> "Error", pid |-> 0, code |-> c]

Ok(v) == [ok |-> TRUE, val |-> v, data |-> <<>>]
OkData(bytes) == [ok |-> TRUE, val |-> Unit, data |-> bytes]
Err(c) == [ok |-> FALSE, val |-> ErrorCode(c), data |-> <<>>]
NoReply == [ok |-> FALSE, val |-> [type |-> "None", pid |-> 0, code |-> 0], data |-> <<>>]

\* ------------------------------------------------------------ registers
\* format_register_value: the 8 bytes of v, least significant first.
format_register_value(v) ==
  [i \in 1 .. 8 |->
     IF i % 2 = 1 THEN v[(i + 1) \div 2] % 256 ELSE v[i \div 2] \div 256]

\* Mutant of read_u64: the buffer is read most significant byte first.
read_u64_big_endian(buffer) ==
  [k \in 1 .. 4 |-> buffer[10 - 2 * k] + 256 * buffer[9 - 2 * k]]

\* LittleEndian::read_u64 of an 8-byte buffer.
read_u64(buffer) ==
  [k \in 1 .. 4 |-> buffer[2 * k - 1] + 256 * buffer[2 * k]]

\* read_register(register)
read_register(register, vm) ==
  IF register < RISCV_GENERAL_REGISTER_NUMBER
  THEN OkData(format_register_value(vm.registers[register]))
  ELSE IF register = RISCV_GENERAL_REGISTER_NUMBER
  THEN OkData(format_register_value(vm.pc))
  ELSE Err(1)

\* Mutant of write_pc: the pending pc is set and never committed.
write_pc_without_commit(h, vm, value) == update_pc(vm, value)

\* The pc arm of write_register: update_pc then commit_pc in GdbHandler,
\* set_pc in VMHandler.
write_pc(h, vm, value) ==
  IF h = "GdbHandler" THEN commit_pc(update_pc(vm, value)) ELSE set_pc(vm, value)

\* Mutant of oversized: the bound is off by one.
oversized_off_by_one(contents) == Len(contents) > 9

\* The length test at the head of write_register.
oversized(contents) == Len(contents) > 8

\* write_register(register, contents): the reply and the machine afterwards.
write_register(h, register, contents, vm) ==
  IF oversized(contents)
  THEN [result |-> Err(2), vm |-> vm]
  ELSE
    LET buffer == [i \in 1 .. 8 |-> IF i <= Len(contents) THEN contents[i] ELSE 0]
        value == read_u64(buffer)
    IN IF register < RISCV_GENERAL_REGISTER_NUMBER
       THEN [result |-> Ok(Unit),
             vm |-> [vm EXCEPT !.registers[register] = value]]
       ELSE IF register = RISCV_GENERAL_REGISTER_NUMBER
       THEN [result |-> Ok(Unit), vm |-> write_pc(h, vm, value)]
       ELSE [result |-> Err(2), vm |-> vm]

\* ------------------------------------------------------------ breakpoints
\* at_breakpoint: some stored breakpoint has the machine's pc as its address.
at_breakpoint(vm, bps) == \E i \in 1 .. Len(bps) : bps[i].addr = vm.pc

\* insert_software_breakpoint: push.
insert_software_breakpoint(bps, breakpoint) == Append(bps, breakpoint)

\* Breakpoint's derived PartialEq: every field.
breakpoint_ne(b, breakpoint) == b # breakpoint

\* remove_software_breakpoint: retain(|b| b != &breakpoint).
remove_software_breakpoint(bps, breakpoint) ==
  SelectSeq(bps, LAMBDA b : breakpoint_ne(b, breakpoint))

\* ------------------------------------------------------------ vcont
\* An execution in progress: the machine, the addresses of the instructions
\* executed so far by this call, and how the call stands.
Begin(vm) == [vm |-> vm, executed |-> <<>>, end |-> "returned"]

\* machine.step(&mut decoder).expect("VM error"): a failing step panics.
step_expect(o) ==
  LET r == step(o.vm)
  IN IF r.ok
     THEN [vm |-> r.vm, executed |-> Append(o.executed, o.vm.pc), end |-> "returned"]
     ELSE [o EXCEPT !.end = "panicked"]

\* Mutant of continue_cond: the loop forgets the breakpoints.
continue_cond_without_breakpoints(h, vm, bps) == vm.running

\* The loop condition of VCont::Continue.
continue_cond(h, vm, bps) ==
  IF h = "GdbHandler"
  THEN (~at_breakpoint(vm, bps)) /\ vm.running
  ELSE ~at_breakpoint(vm, bps)

\* The loop condition of VCont::RangeStep(range).
range_cond(h, range, vm, bps) ==
  IF h = "GdbHandler"
  THEN Ge(vm.pc, range.start) /\ Lt(vm.pc, range.end)
       /\ (~at_breakpoint(vm, bps)) /\ vm.running
  ELSE Ge(vm.pc, range.start) /\ Lt(vm.pc, range.end)
       /\ (~at_breakpoint(vm, bps))

\* Mutant of step_guard: the step is taken whether or not the VM is running.
step_guard_always(h, vm) == TRUE

\* The guard of VCont::Step.
step_guard(h, vm) == IF h = "GdbHandler" THEN vm.running ELSE TRUE

loop_cond(h, action, vm, bps) ==
  IF action.type = "Continue"
  THEN continue_cond(h, vm, bps)
  ELSE range_cond(h, action.range, vm, bps)

\* The while loops of Continue and RangeStep. The machine is deterministic, so
\* a loop that comes back to a machine state it has already tested never ends.
RECURSIVE while_loop(_, _, _, _, _)
while_loop(h, action, bps, o, seen) ==
  IF o.end # "returned" THEN o
  ELSE IF ~loop_cond(h, action, o.vm, bps) THEN o
  ELSE IF o.vm \in seen THEN [o EXCEPT !.end = "hung"]
  ELSE while_loop(h, action, bps, step_expect(o), seen \cup {o.vm})

\* Mutant of as_u8: the exit code is passed on as it is.
as_u8_uncast(c) == c

\* exit_code() as u8: the i8 reinterpreted as an unsigned byte.
as_u8(c) == IF c < 0 THEN c + 256 ELSE c

\* The stop reason computed after the match.
stop_reason(vm) ==
  IF vm.running THEN Signal(5) ELSE Exited(0, as_u8(vm.exit_code))

\* Mutant of arm: the actions with a signal are run as the plain ones.
arm_signal_as_plain(action) ==
  CASE action.type \in {"Continue", "ContinueWithSignal"} -> "Continue"
    [] action.type \in {"Step", "StepWithSignal"} -> "Step"
    [] action.type = "RangeStep" -> "RangeStep"
    [] OTHER -> "unsupported"

\* The arm of the match that an action takes.
arm(action) ==
  CASE action.type = "Continue" -> "Continue"
    [] action.type = "Step" -> "Step"
    [] action.type = "RangeStep" -> "RangeStep"
    [] OTHER -> "unsupported"

\* VCont::Continue: one step, then the loop.
continue_arm(h, action, vm, bps) ==
  while_loop(h, action, bps, step_expect(Begin(vm)), {})

\* VCont::Step.
step_arm(h, vm) ==
  IF step_guard(h, vm) THEN step_expect(Begin(vm)) ELSE Begin(vm)

\* Mutant of range_step_arm: the loop condition is tested before the first step.
range_step_arm_test_first(h, action, vm, bps) ==
  while_loop(h, action, bps, Begin(vm), {})

\* VCont::RangeStep(range): one step, then the loop.
range_step_arm(h, action, vm, bps) ==
  while_loop(h, action, bps, step_expect(Begin(vm)), {})

\* Mutant of first_pair: the last pair of the request is taken.
last_pair(request) == request[Len(request)]

\* request.into_iter().next().unwrap(): the first (action, thread id) pair.
first_pair(request) == request[1]

\* vcont(request): only request[0] is looked at.
vcont(h, request, vm, bps) ==
  LET action == first_pair(request).action
      a == arm(action)
      o == CASE a = "Continue" -> continue_arm(h, action, vm, bps)
             [] a = "Step" -> step_arm(h, vm)
             [] a = "RangeStep" -> range_step_arm(h, action, vm, bps)
             [] OTHER -> Begin(vm)
  IN IF a = "unsupported"
     THEN [vm |-> vm, executed |-> <<>>, end |-> "returned", result |-> Err(5)]
     ELSE [vm |-> o.vm, executed |-> o.executed, end |-> o.end,
           result |-> IF o.end = "returned" THEN Ok(stop_reason(o.vm)) ELSE NoReply]

\* ------------------------------------------------------------ memory access
\* address + length on u64 (the end of the range that read_memory iterates).
RECURSIVE AddN(_, _)
AddN(v, n) == IF n = 0 THEN v ELSE AddN(Add1(v), n - 1)

\* memory.load8(&address): fails outside the guest's memory.
load8(vm, address) ==
  IF IsAddr(address) THEN [ok |-> TRUE, value |-> vm.memory[address[1]]]
  ELSE [ok |-> FALSE, value |-> 0]

\* Mutant of load8_error: the message names the start of the region.
load8_error_at_region_start(region, address) ==
  [result |-> Err(3), log |-> <<region.address>>]

\* The map_err closure of read_memory: the message logged (the address it
\* names) and the error returned.
load8_error(region, address) ==
  [result |-> Err(3), log |-> <<address>>]

\* for address in region.address..(region.address + region.length)
RECURSIVE read_memory_loop(_, _, _, _, _)
read_memory_loop(region, vm, address, end, values) ==
  IF Ge(address, end) THEN [result |-> OkData(values), log |-> <<>>]
  ELSE LET value == load8(vm, address)
       IN IF ~value.ok THEN load8_error(region, address)
          ELSE read_memory_loop(region, vm, Add1(address), end,
                                Append(values, value.value))

read_memory(region, vm) ==
  read_memory_loop(region, vm, region.address,
                   AddN(region.address, region.length), <<>>)

\* The addresses address, address + 1, ... that a store of n bytes touches.
Touched(address, n) == {AddN(address, k) : k \in 0 .. (n - 1)}

\* Mutant of store_bytes: the last byte is not stored.
store_bytes_dropping_last(memory_, address, bytes) ==
  IF \A a \in Touched(address, Len(bytes)) : IsAddr(a)
  THEN [ok |-> TRUE,
        memory |-> [a \in Addr |->
                      IF \E k \in 1 .. (Len(bytes) - 1) : AddN(address, k - 1) = W(a)
                      THEN bytes[CHOOSE k \in 1 .. (Len(bytes) - 1) : AddN(address, k - 1) = W(a)]
                      ELSE memory_[a]]]
  ELSE [ok |-> FALSE, memory |-> memory_]

\* memory.store_bytes(address, bytes): all the bytes are stored, or, when the
\* range leaves the guest's memory, the store fails.
store_bytes(memory_, address, bytes) ==
  IF \A a \in Touched(address, Len(bytes)) : IsAddr(a)
  THEN [ok |-> TRUE,
        memory |-> [a \in Addr |->
                      IF \E k \in 1 .. Len(bytes) : AddN(address, k - 1) = W(a)
                      THEN bytes[CHOOSE k \in 1 .. Len(bytes) : AddN(address, k - 1) = W(a)]
                      ELSE memory_[a]]]
  ELSE [ok |-> FALSE, memory |-> memory_]

\* write_memory: one store_bytes; on failure the message names the start address.
write_memory(address, bytes, vm) ==
  LET s == store_bytes(vm.memory, address, bytes)
  IN IF s.ok
     THEN [result |-> Ok(Unit), log |-> <<>>, vm |-> [vm EXCEPT !.memory = s.memory]]
     ELSE [result |-> Err(4), log |-> <<address>>, vm |-> vm]

\* ------------------------------------------------------------ Stdio
\* Result<bool, Error> of Syscalls::ecall.
Handled(b) == [ok |-> TRUE, handled |-> b]
VmError == [ok |-> FALSE, handled |-> FALSE]

\* Register::to_i32: the low 32 bits (two limbs), the descriptor given to the host.
to_i32(v) == <<v[1], v[2]>>

\* Mutant of from_i8: the byte is zero-extended.
from_i8_zero_extended(n) == W((n + 256) % 256)

\* Register::from_i8: the signed byte, sign-extended to 64 bits.
from_i8(n) ==
  IF n < 0 THEN <<Limb + n, Limb - 1, Limb - 1, Limb - 1>> ELSE W(n)

\* The bytes of the AbiStat filled from the host's stat: fields copied in
\* declaration order into a zeroed record.
abi_stat_bytes(stat) ==
  [k \in 1 .. StatLen |->
     IF k = 1 THEN stat.st_dev ELSE IF k = 2 THEN stat.st_size ELSE 0]

\* Mutant of fstat: the return register is zeroed before the store and the
\* store's failure is dropped.
fstat_swallowing_store_error(vm, host) ==
  IF ~host.ok
  THEN [ok |-> TRUE, vm |-> [vm EXCEPT !.registers[A0] = from_i8(-1)]]
  ELSE LET b == abi_stat_bytes(host.stat)
           addr == vm.registers[A1]
           zeroed == [vm EXCEPT !.registers[A0] = W(0)]
           s == store_bytes(vm.memory, addr, b)
       IN [ok |-> TRUE, vm |-> [zeroed EXCEPT !.memory = s.memory]]

\* Stdio::fstat; host is the outcome of the host's fstat on the descriptor.
fstat(vm, host) ==
  IF ~host.ok
  THEN [ok |-> TRUE, vm |-> [vm EXCEPT !.registers[A0] = from_i8(-1)]]
  ELSE LET b == abi_stat_bytes(host.stat)
           addr == vm.registers[A1]
           s == store_bytes(vm.memory, addr, b)
       IN IF ~s.ok THEN [ok |-> FALSE, vm |-> vm]
          ELSE [ok |-> TRUE,
                vm |-> [vm EXCEPT !.memory = s.memory, !.registers[A0] = W(0)]]

\* Mutant of syscall_number: only the low 16 bits are matched.
syscall_number_truncated(vm) == W(vm.registers[A7][1])

\* machine.registers()[A7].to_u64()
syscall_number(vm) == vm.registers[A7]

\* Stdio::ecall. queried is the descriptor the host was asked about, if any.
ecall(vm, host) ==
  IF syscall_number(vm) = W(SyscallFstat)
  THEN LET f == fstat(vm, host)
       IN [result |-> IF f.ok THEN Handled(TRUE) ELSE VmError,
           vm |-> f.vm, queried |-> <<to_i32(vm.registers[A0])>>]
  ELSE [result |-> Handled(FALSE), vm |-> vm, queried |-> <<>>]

\* ------------------------------------------------------------ inputs
\* The programs a session is started on (bytes from address 0; the rest of
\* memory is zero, which does not decode).
Programs ==
  { <<4, 1, 5, 1>>,   \* li a7,93; nop; ecall (exit 0); nop
    <<1, 1, 2>>,      \* nop; nop; j 0: never exits
    <<3, 4, 5, 2>>,   \* li a0,456; li a7,93; ecall (exit -56); j 0
    <<1, 5>>,         \* nop; ecall with a7 = 0: the step fails
    <<4, 5>>,         \* li a7,93; ecall (exit 0); then nothing that decodes
    <<1, 3, 1, 2>> }  \* nop; li a0,456; nop; j 0: never exits

Load(p) == [a \in Addr |-> IF a + 1 <= Len(p) THEN p[a + 1] ELSE 0]

NoRange == [start |-> W(0), end |-> W(0)]
Continue == [type |-> "Continue", range |-> NoRange, sig |-> 0]
Step == [type |-> "Step", range |-> NoRange, sig |-> 0]
RangeStep(lo, hi) == [type |-> "RangeStep", range |-> [start |-> lo, end |-> hi], sig |-> 0]
ContinueWithSignal(n) == [type |-> "ContinueWithSignal", range |-> NoRange, sig |-> n]
StepWithSignal(n) == [type |-> "StepWithSignal", range |-> NoRange, sig |-> n]
Stop == [type |-> "Stop", range |-> NoRange, sig |-> 0]

MaxU64 == <<Limb - 1, Limb - 1, Limb - 1, Limb - 1>>

Ranges ==
  { <<W(1), W(3)>>, <<W(0), W(2)>>, <<W(2), W(2)>>, <<W(3), W(1)>>, <<W(0), MaxU64>> }

VContActions ==
  {Continue, Step, Stop, ContinueWithSignal(5), StepWithSignal(5)}
    \cup {RangeStep(r[1], r[2]) : r \in Ranges}

\* Requests: a non-empty vector of (action, thread id) pairs.
Requests == {<<[action |-> a, thread |-> "none"]>> : a \in VContActions}

BreakpointInputs ==
  { [addr |-> W(1), kind |-> 2], [addr |-> W(1), kind |-> 4],
    [addr |-> W(2), kind |-> 2], [addr |-> W(3), kind |-> 2] }

\* ------------------------------------------------------------ the session
NoCall ==
  [op |-> "none", arg |-> <<>>, pre |-> <<>>, result |-> NoReply,
   executed |-> <<>>, pcWritten |-> <<>>]

Init ==
  /\ impl \in Impls
  /\ \E p \in Programs : memory = Load(p)
  /\ registers = [r \in Regs |-> W(0)]
  /\ pc = W(0)
  /\ next_pc = W(0)
  /\ running = TRUE
  /\ exit_code = 0
  /\ breakpoints = <<>>
  /\ status = "serving"
  /\ last = NoCall

Pre == [vm |-> Machine, breakpoints |-> breakpoints]

SetMachine(vm) ==
  /\ registers' = vm.registers
  /\ pc' = vm.pc
  /\ next_pc' = vm.next_pc
  /\ memory' = vm.memory
  /\ running' = vm.running
  /\ exit_code' = vm.exit_code

InsertBreakpoint(breakpoint) ==
  /\ status = "serving"
  /\ Len(breakpoints) < MaxBps
  /\ breakpoints' = insert_software_breakpoint(breakpoints, breakpoint)
  /\ last' = [op |-> "insert_software_breakpoint", arg |-> breakpoint, pre |-> Pre,
              result |-> Ok(Unit), executed |-> <<>>, pcWritten |-> <<>>]
  /\ UNCHANGED <<impl, registers, pc, next_pc, memory, running, exit_code, status>>

RemoveBreakpoint(breakpoint) ==
  /\ status = "serving"
  /\ breakpoints' = remove_software_breakpoint(breakpoints, breakpoint)
  /\ last' = [op |-> "remove_software_breakpoint", arg |-> breakpoint, pre |-> Pre,
              result |-> Ok(Unit), executed |-> <<>>, pcWritten |-> <<>>]
  /\ UNCHANGED <<impl, registers, pc, next_pc, memory, running, exit_code, status>>

\* The bytes a directly preceding successful write_register(N, _) wrote to the pc.
JustWrittenPc ==
  IF /\ last.op = "write_register"
     /\ last.result.ok
     /\ last.arg.register = RISCV_GENERAL_REGISTER_NUMBER
  THEN <<last.arg.contents>>
  ELSE <<>>

VCont(request) ==
  /\ status = "serving"
  /\ LET r == vcont(impl, request, Machine, breakpoints)
     IN /\ SetMachine(r.vm)
        /\ status' = IF r.end = "returned" THEN "serving" ELSE r.end
        /\ last' = [op |-> "vcont", arg |-> request, pre |-> Pre, result |-> r.result,
                    executed |-> r.executed, pcWritten |-> JustWrittenPc]
  /\ UNCHANGED <<impl, breakpoints>>

WriteRegister(register, contents) ==
  /\ status = "serving"
  /\ LET r == write_register(impl, register, contents, Machine)
     IN /\ SetMachine(r.vm)
        /\ last' = [op |-> "write_register",
                    arg |-> [register |-> register, contents |-> contents],
                    pre |-> Pre, result |-> r.result, executed |-> <<>>,
                    pcWritten |-> <<>>]
  /\ UNCHANGED <<impl, breakpoints, status>>

ReadRegister(register) ==
  /\ status = "serving"
  /\ last' = [op |-> "read_register", arg |-> [register |-> register, contents |-> <<>>],
              pre |-> Pre, result |-> read_register(register, Machine),
              executed |-> <<>>, pcWritten |-> <<>>]
  /\ UNCHANGED <<impl, registers, pc, next_pc, memory, running, exit_code,
                 breakpoints, status>>

\* Execution control: breakpoints and vCont.
Next ==
  \/ \E b \in BreakpointInputs : InsertBreakpoint(b)
  \/ \E b \in BreakpointInputs : RemoveBreakpoint(b)
  \/ \E request \in Requests : VCont(request)

Spec == Init /\ [][Next]_vars

\* Register access, with the resuming requests that show where execution goes on.
RegisterInputs == {A0, RISCV_GENERAL_REGISTER_NUMBER, RISCV_GENERAL_REGISTER_NUMBER + 1}

ContentsInputs ==
  { <<>>, <<2>>, <<200, 1>>,
    <<255, 255, 255, 255, 255, 255, 255, 255>>,
    <<1, 0, 0, 0, 0, 0, 0, 0, 0>> }

ResumeRequests ==
  {<<[action |-> a, thread |-> "none"]>> : a \in {Continue, Step, RangeStep(W(1), W(3))}}

NextReg ==
  \/ \E register \in RegisterInputs, contents \in ContentsInputs :
        WriteRegister(register, contents)
  \/ \E register \in RegisterInputs : ReadRegister(register)
  \/ \E request \in ResumeRequests : VCont(request)

SpecReg == Init /\ [][NextReg]_vars

\* Register values: writes of 0 to 8 bytes to general-purpose registers, and reads.
WordRegisters == {0, A0, RISCV_GENERAL_REGISTER_NUMBER - 1}

WordContents ==
  { <<>>, <<1>>, <<42>>,
    <<0, 0, 0, 0, 0, 0, 0, 128>>,
    <<255, 255, 255, 255, 255, 255, 255, 255>> }

NextWord ==
  \/ \E register \in WordRegisters, contents \in WordContents :
        WriteRegister(register, contents)
  \/ \E register \in WordRegisters : ReadRegister(register)

SpecWord == Init /\ [][NextWord]_vars

\* Memory access: reads and writes inside, across and beyond the guest's memory.
ReadMemory(region) ==
  /\ status = "serving"
  /\ LET r == read_memory(region, Machine)
     IN last' = [op |-> "read_memory", arg |-> region, pre |-> Pre,
                 result |-> r.result, executed |-> <<>>, pcWritten |-> <<>>,
                 log |-> r.log]
  /\ UNCHANGED <<impl, registers, pc, next_pc, memory, running, exit_code,
                 breakpoints, status>>

WriteMemory(address, bytes) ==
  /\ status = "serving"
  /\ LET r == write_memory(address, bytes, Machine)
     IN /\ SetMachine(r.vm)
        /\ last' = [op |-> "write_memory",
                    arg |-> [address |-> address, bytes |-> bytes],
                    pre |-> Pre, result |-> r.result, executed |-> <<>>,
                    pcWritten |-> <<>>, log |-> r.log]
  /\ UNCHANGED <<impl, breakpoints, status>>

MemoryAddresses == {W(0), W(MemSize - 2), W(MemSize - 1), W(MemSize)}

Regions ==
  {[address |-> a, length |-> n] : a \in MemoryAddresses, n \in 0 .. 3}

ByteInputs == {<<>>, <<7>>, <<7, 9>>}

\* A store of no bytes is only requested inside the guest's memory.
MemoryWrites ==
  {w \in MemoryAddresses \X ByteInputs : Len(w[2]) > 0 \/ IsAddr(w[1])}

NextMem ==
  \/ \E region \in Regions : ReadMemory(region)
  \/ \E w \in MemoryWrites : WriteMemory(w[1], w[2])

SpecMem == Init /\ [][NextMem]_vars

\* System calls: the guest's argument registers are set, then Stdio::ecall runs
\* against a host whose fstat fails or returns a status.
Ecall(host) ==
  /\ status = "serving"
  /\ LET r == ecall(Machine, host)
     IN /\ SetMachine(r.vm)
        /\ last' = [op |-> "ecall", arg |-> host, pre |-> Pre, result |-> r.result,
                    executed |-> <<>>, pcWritten |-> <<>>, queried |-> r.queried]
  /\ UNCHANGED <<impl, breakpoints, status>>

HostOutcomes ==
  { [ok |-> FALSE, stat |-> [st_dev |-> 0, st_size |-> 0]],
    [ok |-> TRUE, stat |-> [st_dev |-> 33, st_size |-> 5]] }

SyscallWrites ==
  { <<A7, <<SyscallFstat>>>>, <<A7, <<93>>>>, <<A7, <<SyscallFstat, 0, 1>>>>,
    <<A1, <<1>>>>, <<A1, <<MemSize - 1>>>>,
    <<A0, <<3>>>>, <<A0, <<255, 255, 255, 255, 255, 255, 255, 255>>>> }

NextSys ==
  \/ \E w \in SyscallWrites : WriteRegister(w[1], w[2])
  \/ \E host \in HostOutcomes : Ecall(host)

SpecSys == Init /\ [][NextSys]_vars

\* Batched requests: one or two (action, thread id) pairs, with and without a
\* thread id, on a session with breakpoints.
ThreadIds == {"none", "1"}

BatchActions == {Continue, Step, Stop, RangeStep(W(1), W(3))}

BatchPairs == {[action |-> a, thread |-> t] : a \in BatchActions, t \in ThreadIds}

BatchRequests ==
  {<<p>> : p \in BatchPairs}
    \cup {<<p, q>> : p \in BatchPairs, q \in {x \in BatchPairs : x.thread = "1"}}

BatchBreakpoints == {[addr |-> W(1), kind |-> 2], [addr |-> W(2), kind |-> 2]}

NextBatch ==
  \/ \E b \in BatchBreakpoints : InsertBreakpoint(b)
  \/ \E request \in BatchRequests : VCont(request)

SpecBatch == Init /\ [][NextBatch]_vars

\* ------------------------------------------------------------ the VM's path
\* The machine states that repeated stepping goes through, from vm: vm itself,
\* then the state after each step, up to n steps or the first failing step.
RECURSIVE PathFrom(_, _)
PathFrom(vm, n) ==
  IF n = 0 THEN <<vm>>
  ELSE LET r == step(vm)
       IN IF r.ok THEN <<vm>> \o PathFrom(r.vm, n - 1) ELSE <<vm>>

\* Long enough to hold every state a path goes through before it repeats one
\* with the running flag unchanged.
Horizon == 4 * MemSize + 2

\* The numbers of steps, at least one, that lead to a state of path P.
Steps(P) == 1 .. (Len(P) - 1)

\* The least number of a set of step counts, 0 for the empty set.
Least(S) == IF S = {} THEN 0 ELSE CHOOSE k \in S : \A j \in S : k <= j

\* After how many steps P first has pc = A; first is not running; 0 if never.
FirstAt(P, A) == Least({n \in Steps(P) : P[n + 1].pc = A})
FirstExit(P) == Least({n \in Steps(P) : ~P[n + 1].running})

\* The addresses of the first k instructions executed along P.
ExecutedOf(P, k) == [i \in 1 .. k |-> P[i].pc]

InRange(v, range) == Ge(v, range.start) /\ Lt(v, range.end)

IsVCont(t) == last.op = "vcont" /\ last.arg[1].action.type = t

PrePath == PathFrom(last.pre.vm, Horizon)

\* ------------------------------------------------------------ C1
\* C1 as stated: with a breakpoint at A inserted and the path from the current
\* state reaching pc = A (after at least one step) before the program exits,
\* continue returns in the first such state: pc = A, still running, reply
\* Signal(5).
C1_AsStated ==
  IsVCont("Continue") =>
    LET P == PrePath
        bps == last.pre.breakpoints
    IN \A i \in 1 .. Len(bps) :
         LET A == bps[i].addr
             k == FirstAt(P, A)
         IN (last.pre.vm.running /\ k > 0 /\ \A j \in 1 .. k : P[j + 1].running)
            => /\ status = "serving"
               /\ Machine = P[k + 1]
               /\ pc = A
               /\ running
               /\ last.result = Ok(Signal(5))

\* C1 (amended): with a breakpoint at A inserted and the path from the current
\* state reaching pc = A (after at least one step) before the program exits and
\* before it reaches any other inserted breakpoint address, continue returns in
\* the first such state: pc = A, still running, reply Signal(5).
C1_ContinueStopsAtBreakpoint ==
  IsVCont("Continue") =>
    LET P == PrePath
        bps == last.pre.breakpoints
    IN \A i \in 1 .. Len(bps) :
         LET A == bps[i].addr
             k == FirstAt(P, A)
         IN (/\ last.pre.vm.running
             /\ k > 0
             /\ \A j \in 1 .. k : P[j + 1].running
             /\ \A j \in 1 .. (k - 1) : ~at_breakpoint(P[j + 1], bps))
            => /\ status = "serving"
               /\ Machine = P[k + 1]
               /\ Len(last.executed) = k
               /\ pc = A
               /\ running
               /\ last.result = Ok(Signal(5))

\* A continue that ran through the loop (more than one instruction) and
\* stopped on an inserted breakpoint with the VM running.
C1_Witness ==
  /\ IsVCont("Continue")
  /\ status = "serving"
  /\ Len(last.executed) >= 2
  /\ \E i \in 1 .. Len(last.pre.breakpoints) : last.pre.breakpoints[i].addr = pc
  /\ running
  /\ last.result = Ok(Signal(5))

\* ------------------------------------------------------------ C2
\* The states of P before index k have no stored breakpoint address.
NoBreakpointBefore(P, k, bps) ==
  \A j \in 1 .. (k - 1) : ~at_breakpoint(P[j + 1], bps)

\* C2: after remove(A) of an inserted A, continue on a program whose path passes through A and
\* then exits does not stop at A: it returns when the program exits, in that
\* state, with Exited(0, exit code), for either handler. (Stated for the case
\* that no stored breakpoint is left on the path.)
C2_ContinueAfterRemoveExits ==
  [][ ( /\ last.op = "remove_software_breakpoint"
        /\ \E i \in 1 .. Len(last.pre.breakpoints) :
              last.pre.breakpoints[i].addr = last.arg.addr
        /\ last'.op = "vcont"
        /\ last'.arg[1].action.type = "Continue"
        /\ running
        /\ LET P == PathFrom(Machine, Horizon)
               A == last.arg.addr
               k == FirstExit(P)
           IN /\ k > 0
              /\ \E j \in 1 .. (k - 1) : P[j + 1].pc = A
              /\ NoBreakpointBefore(P, k + 1, breakpoints) )
      => LET P == PathFrom(Machine, Horizon)
             k == FirstExit(P)
         IN /\ status' = "serving"
            /\ Machine' = P[k + 1]
            /\ last'.result = Ok(Exited(0, P[k + 1].exit_code % 256)) ]_vars

\* The same statement for GdbHandler alone, whose loop tests running().
C2_GdbHandlerOnly ==
  [][ ( /\ impl = "GdbHandler"
        /\ last.op = "remove_software_breakpoint"
        /\ \E i \in 1 .. Len(last.pre.breakpoints) :
              last.pre.breakpoints[i].addr = last.arg.addr
        /\ last'.op = "vcont"
        /\ last'.arg[1].action.type = "Continue"
        /\ running
        /\ LET P == PathFrom(Machine, Horizon)
               A == last.arg.addr
               k == FirstExit(P)
           IN /\ k > 0
              /\ \E j \in 1 .. (k - 1) : P[j + 1].pc = A
              /\ NoBreakpointBefore(P, k + 1, breakpoints) )
      => LET P == PathFrom(Machine, Horizon)
             k == FirstExit(P)
         IN /\ status' = "serving"
            /\ Machine' = P[k + 1]
            /\ last'.result = Ok(Exited(0, P[k + 1].exit_code % 256)) ]_vars

\* ------------------------------------------------------------ C3
\* After how many steps P is first on a breakpoint or not running; 0 if never.
FirstContinueStop(P, bps) ==
  Least({n \in Steps(P) : at_breakpoint(P[n + 1], bps) \/ ~P[n + 1].running})

\* C3: continue invoked with pc on a breakpoint address and the VM running
\* does not return at once: it executes the instruction at that address and
\* goes on to the first later state that is on a breakpoint or has exited, and
\* returns there.
C3_ContinueFromBreakpoint ==
  ( /\ IsVCont("Continue")
    /\ at_breakpoint(last.pre.vm, last.pre.breakpoints)
    /\ last.pre.vm.running
    /\ FirstContinueStop(PrePath, last.pre.breakpoints) > 0 )
  => LET P == PrePath
         k == FirstContinueStop(P, last.pre.breakpoints)
     IN /\ status = "serving"
        /\ last.executed = ExecutedOf(P, k)
        /\ Machine = P[k + 1]

\* The same statement for GdbHandler alone.
C3_GdbHandlerOnly == impl = "GdbHandler" => C3_ContinueFromBreakpoint

\* ------------------------------------------------------------ C4
\* Where range_step(range) has to stop: out of the range, on a breakpoint, or
\* not running.
RangeStop(s, range, bps) ==
  (~InRange(s.pc, range)) \/ at_breakpoint(s, bps) \/ ~s.running

FirstRangeStop(P, range, bps) ==
  Least({n \in Steps(P) : RangeStop(P[n + 1], range, bps)})

\* C4: range_step(lo, hi) started with pc inside [lo, hi) returns in the first
\* state after the initial step where pc is outside [lo, hi), or pc is a
\* breakpoint address, or the VM is not running: no instruction more, none less.
C4_RangeStepStopsFirst ==
  ( /\ IsVCont("RangeStep")
    /\ InRange(last.pre.vm.pc, last.arg[1].action.range)
    /\ FirstRangeStop(PrePath, last.arg[1].action.range, last.pre.breakpoints) > 0 )
  => LET P == PrePath
         k == FirstRangeStop(P, last.arg[1].action.range, last.pre.breakpoints)
     IN /\ status = "serving"
        /\ last.executed = ExecutedOf(P, k)
        /\ Machine = P[k + 1]

\* The same statement for GdbHandler alone.
C4_GdbHandlerOnly == impl = "GdbHandler" => C4_RangeStepStopsFirst

\* ------------------------------------------------------------ C5
\* C5 as stated: range_step(lo, hi) invoked with pc outside [lo, hi) (an empty
\* range included) and returning has executed exactly one instruction.
C5_AsStated ==
  ( /\ IsVCont("RangeStep")
    /\ ~InRange(last.pre.vm.pc, last.arg[1].action.range)
    /\ status = "serving" )
  => Len(last.executed) = 1

\* C5 (amended): range_step(lo, hi) invoked with pc outside [lo, hi) (an empty
\* range included) executes the instruction at pc before it tests anything, so
\* at least one; it returns after exactly that one when the pc after it is
\* outside [lo, hi), which is always so for an empty range.
C5_RangeStepOutsideRange ==
  ( /\ IsVCont("RangeStep")
    /\ ~InRange(last.pre.vm.pc, last.arg[1].action.range)
    /\ step(last.pre.vm).ok )
  => LET range == last.arg[1].action.range
         s1 == step(last.pre.vm).vm
     IN /\ Len(last.executed) >= 1
        /\ last.executed[1] = last.pre.vm.pc
        /\ (~InRange(s1.pc, range))
             => (status = "serving" /\ Len(last.executed) = 1 /\ Machine = s1)
        /\ Ge(range.start, range.end)
             => (status = "serving" /\ Len(last.executed) = 1 /\ Machine = s1)

\* A range_step over a non-empty range, started below it, that executed its
\* one unconditional instruction and returned with pc still outside.
C5_Witness ==
  /\ IsVCont("RangeStep")
  /\ Lt(last.arg[1].action.range.start, last.arg[1].action.range.end)
  /\ ~InRange(last.pre.vm.pc, last.arg[1].action.range)
  /\ ~InRange(pc, last.arg[1].action.range)
  /\ status = "serving"
  /\ Len(last.executed) = 1
  /\ pc # last.pre.vm.pc

\* ------------------------------------------------------------ C6
\* C6: single step executes exactly one instruction when the VM is running; when
\* it is not running it executes none and leaves the machine as it was. For
\* either handler.
C6_SingleStep ==
  IsVCont("Step") =>
    /\ (last.pre.vm.running /\ step(last.pre.vm).ok)
         => /\ status = "serving"
            /\ last.executed = <<last.pre.vm.pc>>
            /\ Machine = step(last.pre.vm).vm
    /\ (~last.pre.vm.running)
         => /\ status = "serving"
            /\ last.executed = <<>>
            /\ Machine = last.pre.vm

\* The same statement for GdbHandler alone.
C6_GdbHandlerOnly == impl = "GdbHandler" => C6_SingleStep

\* ------------------------------------------------------------ C7
\* C7: after a continue, step or range-step that returned, the reply is
\* Signal(5) exactly when the VM is still running, and otherwise it is
\* Exited(0, c) with c the exit code modulo 2^8.
C7_StopReason ==
  ( /\ last.op = "vcont"
    /\ last.arg[1].action.type \in {"Continue", "Step", "RangeStep"}
    /\ status = "serving" )
  => /\ last.result.ok
     /\ (last.result.val = Signal(5)) <=> running
     /\ (~running) => last.result.val = Exited(0, exit_code % 256)

\* A call that returned from a halted VM whose exit code is negative as an i8.
C7_Witness ==
  /\ last.op = "vcont"
  /\ last.arg[1].action.type \in {"Continue", "Step", "RangeStep"}
  /\ status = "serving"
  /\ ~running
  /\ exit_code < 0
  /\ last.result.val.type = "Exited"

\* ------------------------------------------------------------ C8
\* C8: a request whose first action is not continue, step or range-step
\* (ContinueWithSignal, StepWithSignal and Stop included) is answered with
\* Error(5), and registers, pc, memory, the running flag and the breakpoints
\* are as before: no instruction is executed.
C8_UnsupportedAction ==
  ( /\ last.op = "vcont"
    /\ last.arg[1].action.type \notin {"Continue", "Step", "RangeStep"} )
  => /\ status = "serving"
     /\ last.result = Err(5)
     /\ last.executed = <<>>
     /\ Machine = last.pre.vm
     /\ breakpoints = last.pre.breakpoints

\* A StepWithSignal request answered in a state where a step would have moved
\* the machine.
C8_Witness ==
  /\ last.op = "vcont"
  /\ last.arg[1].action.type = "StepWithSignal"
  /\ last.result = Err(5)
  /\ running
  /\ step(Machine).ok
  /\ Len(breakpoints) > 0

\* ------------------------------------------------------------ C9
\* contents zero-extended to the 8 bytes of a register.
Pad8(contents) == [i \in 1 .. 8 |-> IF i <= Len(contents) THEN contents[i] ELSE 0]

\* C9: write_register(N, pc_value) commits the program counter: read_register(N)
\* right after it returns pc_value, and a continue, step or range-step that
\* follows executes the instruction at pc_value first.
C9_WritePcThenResume ==
  /\ ( /\ last.op = "write_register"
       /\ last.arg.register = RISCV_GENERAL_REGISTER_NUMBER
       /\ last.result.ok )
     => /\ format_register_value(pc) = Pad8(last.arg.contents)
        /\ read_register(RISCV_GENERAL_REGISTER_NUMBER, Machine)
             = OkData(Pad8(last.arg.contents))
  /\ ( /\ last.op = "vcont"
       /\ last.pcWritten # <<>>
       /\ Len(last.executed) >= 1 )
     => format_register_value(last.executed[1]) = Pad8(last.pcWritten[1])

\* A resume right after the pc was written to 2, away from where it was, that
\* executed the instruction there.
C9_Witness ==
  /\ last.op = "vcont"
  /\ last.pcWritten = << <<2>> >>
  /\ Len(last.executed) >= 1
  /\ last.executed[1] = W(2)

\* ------------------------------------------------------------ C10
\* C10: write_register(idx, bytes) with more than 8 bytes fails with the
\* oversized-value error, Error(2), for every idx, and leaves every
\* general-purpose register and the pc unchanged.
C10_OversizedWrite ==
  ( /\ last.op = "write_register"
    /\ Len(last.arg.contents) > 8 )
  => /\ last.result = Err(2)
     /\ registers = last.pre.vm.registers
     /\ pc = last.pre.vm.pc

\* A 9-byte write to a valid register, whose low bytes differ from the
\* register's value, was rejected.
C10_Witness ==
  /\ last.op = "write_register"
  /\ Len(last.arg.contents) = 9
  /\ last.arg.register = A0
  /\ registers[A0] # W(1)
  /\ last.result = Err(2)

\* ------------------------------------------------------------ C11
\* C11: for every register index above N, read_register fails with the
\* invalid-register error, Error(1), and write_register of at most 8 bytes
\* fails with that same error, not with the oversized-value error Error(2),
\* and leaves the registers and the pc unchanged.
C11_InvalidRegister ==
  /\ ( /\ last.op = "read_register"
       /\ last.arg.register > RISCV_GENERAL_REGISTER_NUMBER )
     => last.result = Err(1)
  /\ ( /\ last.op = "write_register"
       /\ last.arg.register > RISCV_GENERAL_REGISTER_NUMBER
       /\ Len(last.arg.contents) <= 8 )
     => /\ last.result = Err(1)
        /\ last.result # Err(2)
        /\ registers = last.pre.vm.registers
        /\ pc = last.pre.vm.pc

\* ------------------------------------------------------------ C12
\* C12: for a general-purpose register i and 0 to 8 bytes b, write_register(i, b)
\* succeeds, read_register(i) then returns b zero-extended to 8 bytes (least
\* significant byte first), and no other register and not the pc has changed.
C12_RegisterRoundTrip ==
  ( /\ last.op = "write_register"
    /\ last.arg.register < RISCV_GENERAL_REGISTER_NUMBER
    /\ Len(last.arg.contents) <= 8 )
  => /\ last.result = Ok(Unit)
     /\ read_register(last.arg.register, Machine) = OkData(Pad8(last.arg.contents))
     /\ \A r \in Regs \ {last.arg.register} : registers[r] = last.pre.vm.registers[r]
     /\ pc = last.pre.vm.pc
     /\ next_pc = last.pre.vm.next_pc

\* The single byte 0x2A written over 2^64 - 1 reads back as 0x000000000000002A.
C12_Witness ==
  /\ last.op = "write_register"
  /\ last.arg.register = A0
  /\ last.arg.contents = <<42>>
  /\ last.pre.vm.registers[A0] = MaxU64
  /\ last.result = Ok(Unit)
  /\ read_register(A0, Machine).data = <<42, 0, 0, 0, 0, 0, 0, 0>>

\* ------------------------------------------------------------ C13
\* The offsets of a region whose address is outside the guest's memory.
Faults(region) ==
  {k \in 0 .. (region.length - 1) : ~IsAddr(AddN(region.address, k))}

\* C13: read_memory reads the region's addresses in increasing order; if the load
\* at some address a fails, the whole read fails with the memory-fault error
\* (Error(3)), returns no data, and reports the faulting address a, the first
\* one that fails, not the start of the region; with no failing load it
\* returns the bytes of the region in address order.
C13_ReadMemoryFault ==
  last.op = "read_memory"
  => LET region == last.arg
         bad == Faults(region)
     IN IF bad # {}
        THEN /\ last.result = Err(3)
             /\ last.result.data = <<>>
             /\ last.log = <<AddN(region.address, Least(bad))>>
        ELSE /\ last.result =
                  OkData([k \in 1 .. region.length |->
                            last.pre.vm.memory[AddN(region.address, k - 1)[1]]])
             /\ last.log = <<>>

\* A read that starts inside memory and faults past its end: the address
\* reported is not the start of the region.
C13_Witness ==
  /\ last.op = "read_memory"
  /\ IsAddr(last.arg.address)
  /\ Faults(last.arg) # {}
  /\ last.result = Err(3)
  /\ last.log = <<W(MemSize)>>
  /\ last.log # <<last.arg.address>>

\* ------------------------------------------------------------ C14
\* C14: for a fully mapped address range, write_memory(addr, bytes) succeeds, a
\* following read_memory(addr, len(bytes)) returns exactly bytes, and every
\* byte outside [addr, addr + len(bytes)) reads the same as before the write.
C14_MemoryRoundTrip ==
  ( /\ last.op = "write_memory"
    /\ \A a \in Touched(last.arg.address, Len(last.arg.bytes)) : IsAddr(a) )
  => /\ last.result = Ok(Unit)
     /\ read_memory([address |-> last.arg.address, length |-> Len(last.arg.bytes)],
                    Machine).result = OkData(last.arg.bytes)
     /\ \A a \in Addr :
          W(a) \notin Touched(last.arg.address, Len(last.arg.bytes))
          => read_memory([address |-> W(a), length |-> 1], Machine).result
               = read_memory([address |-> W(a), length |-> 1], last.pre.vm).result

\* Two bytes written over different ones, with a different byte left beside them.
C14_Witness ==
  /\ last.op = "write_memory"
  /\ last.arg.bytes = <<7, 9>>
  /\ last.arg.address = W(MemSize - 2)
  /\ last.result = Ok(Unit)
  /\ last.pre.vm.memory[MemSize - 2] # 7
  /\ last.pre.vm.memory[MemSize - 1] # 9
  /\ memory[0] \notin {0, 7, 9}
  /\ read_memory([address |-> W(MemSize - 2), length |-> 2], Machine).result
       = OkData(<<7, 9>>)

\* ------------------------------------------------------------ C15
\* C15: an ecall with system-call number 80 whose host fstat fails sets A0 to
\* the all-ones 64-bit pattern, writes no byte of guest memory, leaves every
\* other register (and the pc) unchanged, and is reported as handled, Ok(true).
C15_FstatHostError ==
  ( /\ last.op = "ecall"
    /\ last.pre.vm.registers[A7] = W(SyscallFstat)
    /\ ~last.arg.ok )
  => /\ registers[A0] = MaxU64
     /\ memory = last.pre.vm.memory
     /\ \A r \in Regs \ {A0} : registers[r] = last.pre.vm.registers[r]
     /\ pc = last.pre.vm.pc
     /\ last.result = Handled(TRUE)

C15_Witness ==
  /\ last.op = "ecall"
  /\ last.pre.vm.registers[A7] = W(SyscallFstat)
  /\ last.pre.vm.registers[A0] = W(3)
  /\ ~last.arg.ok
  /\ last.queried = <<to_i32(W(3))>>
  /\ registers[A0] = MaxU64

\* ------------------------------------------------------------ C16
\* C16: an ecall whose A7 holds any value other than 80 returns handled = false,
\* leaves every register and all guest memory unchanged, and does not query
\* the host.
C16_UnknownSyscall ==
  ( /\ last.op = "ecall"
    /\ last.pre.vm.registers[A7] # W(SyscallFstat) )
  => /\ last.result = Handled(FALSE)
     /\ Machine = last.pre.vm
     /\ last.queried = <<>>

\* A system-call number that differs from 80 only above its low 16 bits.
C16_Witness ==
  /\ last.op = "ecall"
  /\ last.pre.vm.registers[A7] = <<SyscallFstat, 1, 0, 0>>
  /\ last.arg.ok
  /\ last.result = Handled(FALSE)

\* ------------------------------------------------------------ C17
\* C17: an ecall with system-call number 80 whose host fstat succeeds stores the
\* serialized record at the guest address held in A1, then sets A0 to zero and
\* is reported as handled; if the store fails, ecall returns the error
\* (neither Ok(true) nor Ok(false)) and A0 is not set to zero: the registers
\* are as before.
C17_FstatHostSuccess ==
  ( /\ last.op = "ecall"
    /\ last.pre.vm.registers[A7] = W(SyscallFstat)
    /\ last.arg.ok )
  => LET addr == last.pre.vm.registers[A1]
         b == abi_stat_bytes(last.arg.stat)
     IN IF \A a \in Touched(addr, StatLen) : IsAddr(a)
        THEN /\ read_memory([address |-> addr, length |-> StatLen], Machine).result
                  = OkData(b)
             /\ registers[A0] = W(0)
             /\ \A r \in Regs \ {A0} : registers[r] = last.pre.vm.registers[r]
             /\ last.result = Handled(TRUE)
        ELSE /\ last.result = VmError
             /\ last.result \notin {Handled(TRUE), Handled(FALSE)}
             /\ registers = last.pre.vm.registers

\* The record does not fit at the address in A1: the error is returned and the
\* descriptor is still in A0.
C17_Witness ==
  /\ last.op = "ecall"
  /\ last.pre.vm.registers[A7] = W(SyscallFstat)
  /\ last.arg.ok
  /\ last.pre.vm.registers[A1] = W(MemSize - 1)
  /\ last.pre.vm.registers[A0] = W(3)
  /\ last.result = VmError
  /\ registers[A0] = W(3)

\* ------------------------------------------------------------ C18
\* C18: insert always succeeds and appends (duplicates kept); remove(addr)
\* always succeeds and deletes every stored entry whose address equals addr,
\* whatever its kind, so that right afterwards no stored breakpoint has that
\* address (at_breakpoint is false for pc = addr); the entries with other
\* addresses are untouched, in their order.
C18_BreakpointSet ==
  /\ last.op = "insert_software_breakpoint"
     => /\ last.result = Ok(Unit)
        /\ breakpoints = Append(last.pre.breakpoints, last.arg)
  /\ last.op = "remove_software_breakpoint"
     => /\ last.result = Ok(Unit)
        /\ ~at_breakpoint([pc |-> last.arg.addr], breakpoints)
        /\ breakpoints =
             SelectSeq(last.pre.breakpoints, LAMBDA b : b.addr # last.arg.addr)

\* ------------------------------------------------------------ C19
\* C19: vcont depends only on the action of the first pair: every non-empty
\* request with the same first action, run from the same machine state and
\* breakpoint set, gives the same resulting machine state, the same reply
\* (stop reason or error) and the same way of ending; later pairs and the
\* thread ids have no effect.
C19_FirstPairOnly ==
  last.op = "vcont"
  => \A other \in BatchRequests :
       other[1].action = last.arg[1].action
       => LET r == vcont(impl, other, last.pre.vm, last.pre.breakpoints)
          IN /\ r.vm = Machine
             /\ r.result = last.result
             /\ r.executed = last.executed
             /\ (r.end = "returned") = (status = "serving")
             /\ r.end # "returned" => status = r.end

\* A two-pair request whose second pair names another action and a thread:
\* the first pair's step was executed.
C19_Witness ==
  /\ last.op = "vcont"
  /\ Len(last.arg) = 2
  /\ last.arg[1].action = Step
  /\ last.arg[2].action = Stop
  /\ last.arg[2].thread = "1"
  /\ last.result.ok
  /\ Len(last.executed) = 1
  /\ pc # last.pre.vm.pc

\* ------------------------------------------------------------ C20
IsContinuation ==
  /\ last.op = "vcont"
  /\ last.arg[1].action.type \in {"Continue", "Step", "RangeStep"}

\* C20 as stated, for GdbHandler: a continue, step or range-step invoked on a
\* halted VM returns with registers, pc and memory unchanged, no instruction
\* executed, and the reply Exited(0, exit code).
C20_AsStated ==
  ( /\ IsContinuation
    /\ impl = "GdbHandler"
    /\ ~last.pre.vm.running
    /\ status = "serving" )
  => /\ registers = last.pre.vm.registers
     /\ pc = last.pre.vm.pc
     /\ memory = last.pre.vm.memory
     /\ last.executed = <<>>
     /\ last.result = Ok(Exited(0, (last.pre.vm.exit_code + 256) % 256))

\* C20, amended: once the VM has halted, the running flag stays false and every
\* continue, step or range-step that returns reports Exited(0, exit code mod
\* 2^8) again. GdbHandler's step executes nothing and leaves the machine
\* unchanged; GdbHandler's continue and range-step execute exactly one
\* instruction, the unconditional first step (and panic if it fails);
\* VMHandler's operations execute at least that one instruction.
C20_HaltedContinuation ==
  ( /\ IsContinuation
    /\ ~last.pre.vm.running )
  => /\ ~running
     /\ status = "serving"
          => last.result = Ok(Exited(0, (exit_code + 256) % 256))
     /\ (impl = "GdbHandler" /\ IsVCont("Step"))
          => /\ status = "serving"
             /\ last.executed = <<>>
             /\ Machine = last.pre.vm
     /\ (impl = "GdbHandler" /\ ~IsVCont("Step"))
          => IF step(last.pre.vm).ok
             THEN /\ status = "serving"
                  /\ last.executed = <<last.pre.vm.pc>>
                  /\ Machine = step(last.pre.vm).vm
             ELSE /\ status = "panicked"
                  /\ Machine = last.pre.vm
     /\ (impl = "VMHandler" /\ status = "serving")
          => /\ Len(last.executed) >= 1
             /\ last.executed[1] = last.pre.vm.pc

\* GdbHandler continues a halted VM: one more instruction runs, the pc moves,
\* and the reply is Exited again.
C20_Witness ==
  /\ IsVCont("Continue")
  /\ impl = "GdbHandler"
  /\ ~last.pre.vm.running
  /\ status = "serving"
  /\ Len(last.executed) = 1
  /\ pc # last.pre.vm.pc
  /\ last.result = Ok(Exited(0, (exit_code + 256) % 256))

====
